---- MODULE Spec2Model ----
(***************************************************************************)
(* Model of src/main.rs: the ApplyPriceTargets command (paginated fetch,   *)
(* eligibility filters, concurrent tax-rate resolution, price             *)
(* computation) and the PriceData arithmetic.                             *)
(*                                                                         *)
(* Money.  Every Decimal the program holds in a PriceData has scale 2      *)
(* (price_data truncates to scale 2, set_por truncates to 2 places,        *)
(* round_to_retail builds Decimal::new(pennies, 2)), so a Decimal amount   *)
(* of pounds is represented by its integer number of hundredths.  Rates    *)
(* (tax_rate, por) are likewise held in hundredths: 0.20 is 20.            *)
(***************************************************************************)
EXTENDS Integers, Sequences, FiniteSets, TLC

VARIABLES
    pages,          \* remote: the catalog, as the pages /v2/catalog/list serves
    pc,             \* position of main: "fetch", "taxes", "done", "failed", "panicked"
    cursor,         \* get_item_variations: Option<String>, a page index
    result,         \* get_item_variations: Vec<ItemVariation>
    requests,       \* every request sent to the remote API, in order
    failures,       \* number of list requests answered with an error status
    variations,     \* main: the filtered variations
    tasks,          \* the JoinSet: one get_item_taxes task per chunk
    joined,         \* chunk indexes in completion order (join_all's order)
    item_tax_map,   \* main: itemId -> tax category id
    updates,        \* main: the computed updates
    panic,          \* which panic ended the run, "" when none
    amounts,        \* PriceData functions: the input (price, unit cost, tax rate)
    pd,             \* PriceData functions: the PriceData being worked on
    ops             \* PriceData functions: the operations applied so far

vars == <<pages, pc, cursor, result, requests, failures, variations, tasks,
          joined, item_tax_map, updates, panic, amounts, pd, ops>>

pipelineVars == <<pages, pc, cursor, result, requests, failures, variations,
                  tasks, joined, item_tax_map, updates, panic>>

priceVars == <<amounts, pd, ops>>

-----------------------------------------------------------------------------
(* Bounds *)

\* largest number of variants in the remote catalog
MaxVariants == 2
\* number of objects the remote puts on one page
PageSize == 1
\* chunk size of the tax-rate resolution; the program uses 1000 (main.rs:87),
\* scaled down so that a small catalog is split into several chunks
ChunkSize == 1
\* largest number of list requests the remote answers with an error status
MaxFailures == 1
\* range of penny amounts the PriceData functions are exercised on
MaxPennies == 30

-----------------------------------------------------------------------------
(* Option<Money>; the currency is carried through and not modelled *)

None == [some |-> FALSE, amount |-> 0]

Some(a) == [some |-> TRUE, amount |-> a]

-----------------------------------------------------------------------------
(* Decimal helpers *)

Abs(n) == IF n < 0 THEN -n ELSE n

\* n/d rounded to an integer, midpoint to the nearest even: Decimal::round_dp
RoundHalfEven(n, d) ==
    LET nn == IF d < 0 THEN -n ELSE n
        dd == Abs(d)
        q  == nn \div dd
        r  == nn % dd
    IN  IF 2 * r < dd THEN q
        ELSE IF 2 * r > dd THEN q + 1
        ELSE IF q % 2 = 0 THEN q ELSE q + 1

\* n/d truncated toward zero: round_dp_with_strategy(_, RoundingStrategy::ToZero)
TruncToZero(n, d) ==
    LET nn == IF d < 0 THEN -n ELSE n
        dd == Abs(d)
    IN  IF nn >= 0 THEN nn \div dd ELSE -((-nn) \div dd)

-----------------------------------------------------------------------------
(* PriceData: [rrp, unit, tax_rate], all in hundredths *)

\* ItemVariation::price_data: amount / 100 truncated to scale 2.  An i64 number
\* of pennies divided by 100 has at most two fractional digits, so the
\* truncation keeps it: the result is amount hundredths of a pound.
price_data(v, tax_rate) ==
    IF ~v.price_money.some \/ ~v.default_unit_cost.some
    THEN [some |-> FALSE, rrp |-> 0, unit |-> 0, tax_rate |-> 0]
    ELSE [some     |-> TRUE,
          rrp      |-> TruncToZero(v.price_money.amount * 100, 100),
          unit     |-> TruncToZero(v.default_unit_cost.amount * 100, 100),
          tax_rate |-> tax_rate]

\* (rrp - rrp / (tax_rate + 1)).round_dp(2)
vat(p) ==
    RoundHalfEven(p.rrp * (p.tax_rate + 100) - p.rrp * 100, p.tax_rate + 100)

\* (rrp - vat()).round_dp(2): both operands have scale 2
net(p) == p.rrp - vat(p)

profit(p) == net(p) - p.unit

\* (profit / net).round_dp(2), in hundredths
por(p) == RoundHalfEven(profit(p) * 100, net(p))

\* set_por: the local net, truncated to 2 places
set_por_net(p, target) == TruncToZero(p.unit * 100, 100 - target)

\* set_por with both roundings to nearest instead of toward zero
set_por_rounding(p, target) ==
    [p EXCEPT !.rrp =
        RoundHalfEven(RoundHalfEven(p.unit * 100, 100 - target) * (p.tax_rate + 100), 100)]

\* set_por: rrp = trunc2(trunc2(unit / (1 - por)) * (tax_rate + 1))
set_por(p, target) ==
    [p EXCEPT !.rrp = TruncToZero(set_por_net(p, target) * (p.tax_rate + 100), 100)]

\* round_to_retail without the sign factor
round_to_retail_unsigned(p) ==
    LET pennies    == RoundHalfEven(p.rrp, 1)
        last_digit == Abs(pennies) % 10
        target     == IF last_digit <= 2 THEN 0
                      ELSE IF last_digit <= 5 THEN 5
                      ELSE 9
    IN  [p EXCEPT !.rrp = pennies + (target - last_digit)]

\* round_to_retail: snap the last penny digit to 0, 5 or 9
round_to_retail(p) ==
    LET pennies    == RoundHalfEven(p.rrp, 1)
        sign       == IF pennies < 0 THEN -1 ELSE 1
        last_digit == Abs(pennies) % 10
        target     == IF last_digit <= 2 THEN 0
                      ELSE IF last_digit <= 5 THEN 5
                      ELSE 9
    IN  [p EXCEPT !.rrp = pennies + sign * (target - last_digit)]

\* Money.amount of the update: (rrp * 100).round_dp(2).to_i64()
update_amount(p) == RoundHalfEven(p.rrp * 100, 100)

-----------------------------------------------------------------------------
(* The remote catalog *)

Items == {"ITEM_A", "ITEM_B"}

\* (is_deleted, price_money, default_unit_cost) of the variants the remote may hold
Shapes ==
    { <<FALSE, Some(135), Some(86)>>,   \* the sample object of main.rs:403-422
      <<FALSE, Some(80),  Some(48)>>,   \* margin exactly 0.40 when untaxed
      <<FALSE, Some(135), Some(48)>>,   \* margin above 0.40
      <<FALSE, Some(50),  Some(80)>>,   \* unit cost above price
      <<FALSE, Some(80),  Some(80)>>,   \* unit cost equal to price
      <<FALSE, Some(0),   Some(86)>>,   \* zero price
      <<FALSE, Some(135), Some(0)>>,    \* zero unit cost
      <<FALSE, Some(-5),  Some(-9)>>,   \* negative amounts
      <<FALSE, None,      Some(86)>>,   \* no price_money
      <<FALSE, Some(135), None>>,       \* no default_unit_cost
      <<TRUE,  Some(135), Some(86)>> }  \* deleted

\* struct ItemVariation / ItemVariationData, the fields the program reads
ItemVariation(id, shape, item) ==
    [id                |-> id,
     is_deleted        |-> shape[1],
     item_id           |-> item,
     price_money       |-> shape[2],
     default_unit_cost |-> shape[3]]

Min(a, b) == IF a < b THEN a ELSE b

\* the catalogs of n variants; the id of a variant is its position
CatalogsOf(n) ==
    { [k \in 1..n |-> ItemVariation(k, c[k][1], c[k][2])] :
        c \in [1..n -> Shapes \X Items] }

\* the remote serves a catalog PageSize objects at a time; an empty catalog is
\* one page without objects
PagesOf(cat) ==
    IF Len(cat) = 0 THEN << <<>> >>
    ELSE [i \in 1..((Len(cat) + PageSize - 1) \div PageSize) |->
            SubSeq(cat, (i - 1) * PageSize + 1, Min(i * PageSize, Len(cat)))]

\* a request as the remote sees it
Request(endpoint, arg, status) ==
    [endpoint |-> endpoint, arg |-> arg, status |-> status]

-----------------------------------------------------------------------------
(* Tax categories *)

TAX_ZERO == "2CJE55HCPJY5LHB4ZUEDCRJF"

TAX_REDUCED == "3TXZ4AJ4DUCSI6YDBKXHBLRQ"

TAX_STANDARD == "QDKOK36EMFC7772L2V64U6YD"

\* a category id the match of main.rs:104-109 has no arm for
TAX_OTHER == "ZZZZUNKNOWNCATEGORYZZZZZ"

\* the match falls to unreachable!()
Unreachable == -1

\* the match with a default arm in place of unreachable!()
tax_rate_of_defaulting(id) ==
    CASE id = TAX_ZERO     -> 0
      [] id = TAX_REDUCED  -> 5
      [] id = TAX_STANDARD -> 20
      [] OTHER             -> 20

\* match item_tax_map.get(..)?.as_str() { .. }
tax_rate_of(id) ==
    CASE id = TAX_ZERO     -> 0
      [] id = TAX_REDUCED  -> 5
      [] id = TAX_STANDARD -> 20
      [] OTHER             -> Unreachable

\* what batch-retrieve may answer for one item: no "tax_ids" key, an empty
\* "tax_ids" array, or an array whose first entry is a category id
NoTaxIds == "no tax_ids"

EmptyTaxIds == "tax_ids: []"

TaxAnswers == {NoTaxIds, EmptyTaxIds, TAX_ZERO, TAX_REDUCED, TAX_STANDARD, TAX_OTHER}

-----------------------------------------------------------------------------
(* main, Command::ApplyPriceTargets *)

\* the target margin-on-retail, dec!(0.4), in hundredths
TargetPor == 40

\* the three filters of main.rs:70-82
passes_filters(v) ==
    /\ ~v.is_deleted
    /\ v.default_unit_cost.some /\ v.default_unit_cost.amount > 0
    /\ v.price_money.some
    /\ v.price_money.amount > 0
    /\ v.price_money.amount # v.default_unit_cost.amount

RECURSIVE filter_variations(_)
filter_variations(vs) ==
    IF vs = <<>> THEN <<>>
    ELSE (IF passes_filters(Head(vs)) THEN <<Head(vs)>> ELSE <<>>)
         \o filter_variations(Tail(vs))

\* variations.chunks(ChunkSize)
NumChunks(vs) == (Len(vs) + ChunkSize - 1) \div ChunkSize

Chunk(vs, i) == SubSeq(vs, (i - 1) * ChunkSize + 1, Min(i * ChunkSize, Len(vs)))

\* "object_ids" of the batch-retrieve request of a chunk
ChunkItems(chunk) == { chunk[k].item_id : k \in 1..Len(chunk) }

EmptyMap == [i \in {} |-> ""]

\* get_item_taxes, the body parsed: items without "tax_ids" are dropped
\* (filter_map), the others map to the first entry of "tax_ids"
parse_item_taxes(answer) ==
    [i \in { j \in DOMAIN answer : answer[j] # NoTaxIds } |-> answer[i]]

\* acc.extend(val): the entries of val replace those of acc
extend(acc, val) ==
    [i \in (DOMAIN acc) \cup (DOMAIN val) |->
        IF i \in DOMAIN val THEN val[i] ELSE acc[i]]

\* join_all().await.into_iter().flatten(): the Ok results, in completion order
RECURSIVE flatten(_, _)
flatten(ts, order) ==
    IF order = <<>> THEN <<>>
    ELSE (IF ts[Head(order)].state = "ok" THEN <<ts[Head(order)].map>> ELSE <<>>)
         \o flatten(ts, Tail(order))

\* .reduce(|mut acc, val| { acc.extend(val); acc }) of a non-empty sequence
RECURSIVE reduce(_)
reduce(maps) ==
    IF Len(maps) = 1 THEN maps[1]
    ELSE extend(reduce(SubSeq(maps, 1, Len(maps) - 1)), maps[Len(maps)])

\* the threshold test with > in place of >=
at_target_strict(p) == por(p) > TargetPor

\* price.por() >= dec!(0.4): the variation is left alone
at_target(p) == por(p) >= TargetPor

\* the filter_map closure of main.rs:102-133 for one variation whose tax
\* category has a match arm: the updates it yields (none or one)
update_of(v, map) ==
    IF v.item_id \notin DOMAIN map THEN <<>>
    ELSE LET original == price_data(v, tax_rate_of(map[v.item_id]))
             price    == round_to_retail(set_por(original, TargetPor))
         IN  IF ~original.some THEN <<>>
             ELSE IF at_target(original) THEN <<>>
             ELSE << [id         |-> v.id,
                      kind       |-> "ITEM_VARIATION",
                      amount     |-> update_amount(price),
                      por_before |-> por(original),
                      por_after  |-> por(price)] >>

RECURSIVE compute_updates(_, _)
compute_updates(vs, map) ==
    IF vs = <<>> THEN <<>>
    ELSE update_of(Head(vs), map) \o compute_updates(Tail(vs), map)

\* some variation reaches the unreachable!() arm
hits_unreachable(vs, map) ==
    \E k \in 1..Len(vs) :
        /\ vs[k].item_id \in DOMAIN map
        /\ tax_rate_of(map[vs[k].item_id]) = Unreachable

-----------------------------------------------------------------------------
(* The run *)

IdlePrice == [some |-> FALSE, rrp |-> 0, unit |-> 0, tax_rate |-> 0]

InitRun ==
    /\ pc = "fetch"
    /\ cursor = Some(0)
    /\ result = <<>>
    /\ requests = <<>>
    /\ failures = 0
    /\ variations = <<>>
    /\ tasks = <<>>
    /\ joined = <<>>
    /\ item_tax_map = EmptyMap
    /\ updates = <<>>
    /\ panic = ""

Init ==
    /\ \E n \in 0..MaxVariants : \E cat \in CatalogsOf(n) : pages = PagesOf(cat)
    /\ InitRun
    /\ amounts = None
    /\ pd = IdlePrice
    /\ ops = <<>>

\* get_item_variations, one iteration answered with a success status: the
\* objects of the page are appended, the cursor of the answer is taken
ListPageOk ==
    /\ pc = "fetch"
    /\ cursor.some
    /\ requests' = Append(requests, Request("list", cursor.amount, "ok"))
    /\ result' = result \o pages[cursor.amount + 1]
    /\ cursor' = IF cursor.amount + 1 < Len(pages)
                 THEN Some(cursor.amount + 1)
                 ELSE None
    /\ UNCHANGED <<pages, pc, failures, variations, tasks, joined,
                   item_tax_map, updates, panic>>

\* get_item_variations, one iteration answered with an error status
\* (error_for_status is Err): the error is printed and the loop goes on
ListPageError ==
    /\ pc = "fetch"
    /\ cursor.some
    /\ failures < MaxFailures
    /\ requests' = Append(requests, Request("list", cursor.amount, "error"))
    /\ failures' = failures + 1
    /\ UNCHANGED <<pages, pc, cursor, result, variations, tasks, joined,
                   item_tax_map, updates, panic>>

\* get_item_variations, one iteration whose send() fails: `?` returns the
\* error from get_item_variations and from main
ListSendError ==
    /\ pc = "fetch"
    /\ cursor.some
    /\ requests' = Append(requests, Request("list", cursor.amount, "send error"))
    /\ pc' = "failed"
    /\ UNCHANGED <<pages, cursor, result, failures, variations, tasks, joined,
                   item_tax_map, updates, panic>>

\* the loop of get_item_variations ends (cursor is None); main filters the
\* variations and spawns one get_item_taxes task per chunk
FilterAndSpawn ==
    /\ pc = "fetch"
    /\ ~cursor.some
    /\ variations' = filter_variations(result)
    /\ tasks' = [i \in 1..NumChunks(variations') |->
                    [state |-> "running", map |-> EmptyMap]]
    /\ pc' = "taxes"
    /\ UNCHANGED <<pages, cursor, result, requests, failures, joined,
                   item_tax_map, updates, panic>>

\* get_item_taxes of chunk i fails: send() or error_for_status() is Err
TaxTaskError(i) ==
    /\ pc = "taxes"
    /\ i \in DOMAIN tasks
    /\ tasks[i].state = "running"
    /\ tasks' = [tasks EXCEPT ![i].state = "err"]
    /\ joined' = Append(joined, i)
    /\ requests' = Append(requests, Request("batch-retrieve", i, "error"))
    /\ UNCHANGED <<pages, pc, cursor, result, failures, variations,
                   item_tax_map, updates, panic>>

\* get_item_taxes of chunk i is answered: without "objects" the map is empty
\* (unwrap_or_default); an item whose "tax_ids" is an empty array panics the
\* task at expect("get(0)")
TaxTaskAnswer(i) ==
    /\ pc = "taxes"
    /\ i \in DOMAIN tasks
    /\ tasks[i].state = "running"
    /\ \E objects \in BOOLEAN :
       \E answer \in [ChunkItems(Chunk(variations, i)) -> TaxAnswers] :
          /\ ~objects => \A j \in DOMAIN answer : answer[j] = NoTaxIds
          /\ tasks' = [tasks EXCEPT ![i] =
                IF ~objects THEN [state |-> "ok", map |-> EmptyMap]
                ELSE IF \E j \in DOMAIN answer : answer[j] = EmptyTaxIds
                THEN [state |-> "panic", map |-> EmptyMap]
                ELSE [state |-> "ok", map |-> parse_item_taxes(answer)]]
    /\ joined' = Append(joined, i)
    /\ requests' = Append(requests, Request("batch-retrieve", i, "ok"))
    /\ UNCHANGED <<pages, pc, cursor, result, failures, variations,
                   item_tax_map, updates, panic>>

\* every task has ended: join_all returns, the results are merged and the
\* updates computed and printed
JoinAndCompute ==
    /\ pc = "taxes"
    /\ \A i \in DOMAIN tasks : tasks[i].state # "running"
    /\ LET maps == flatten(tasks, joined)
       IN  IF \E i \in DOMAIN tasks : tasks[i].state = "panic"
           THEN /\ pc' = "panicked"
                /\ panic' = "join_all"
                /\ UNCHANGED <<item_tax_map, updates>>
           ELSE IF maps = <<>>
           THEN /\ pc' = "panicked"
                /\ panic' = "unwrap"
                /\ UNCHANGED <<item_tax_map, updates>>
           ELSE /\ item_tax_map' = reduce(maps)
                /\ IF hits_unreachable(variations, item_tax_map')
                   THEN /\ pc' = "panicked"
                        /\ panic' = "unreachable"
                        /\ UNCHANGED updates
                   ELSE /\ pc' = "done"
                        /\ updates' = compute_updates(variations, item_tax_map')
                        /\ UNCHANGED panic
    /\ UNCHANGED <<pages, cursor, result, requests, failures, variations,
                   tasks, joined>>

Next ==
    \/ ListPageOk /\ UNCHANGED priceVars
    \/ ListPageError /\ UNCHANGED priceVars
    \/ ListSendError /\ UNCHANGED priceVars
    \/ FilterAndSpawn /\ UNCHANGED priceVars
    \/ \E i \in 1..(MaxVariants + 1) : TaxTaskError(i) /\ UNCHANGED priceVars
    \/ \E i \in 1..(MaxVariants + 1) : TaxTaskAnswer(i) /\ UNCHANGED priceVars
    \/ JoinAndCompute /\ UNCHANGED priceVars

Spec == Init /\ [][Next]_vars

-----------------------------------------------------------------------------
(* The PriceData functions on their own: price_data, then set_por and        *)
(* round_to_retail applied to an input drawn from PriceInputs x UnitInputs.  *)

PriceInputs == (-MaxPennies .. MaxPennies) \cup {135, 17196, 17199}

UnitInputs == {1, 48, 86, 8600}

TaxRates == {0, 5, 20}

PriceInit ==
    /\ pages = << <<>> >>
    /\ InitRun
    /\ amounts \in [price : PriceInputs, unit : UnitInputs, tax_rate : TaxRates]
    /\ pd = IdlePrice
    /\ ops = <<>>

Count(seq, x) == Cardinality({ k \in 1..Len(seq) : seq[k] = x })

\* v.price_data(tax_rate)
PriceDataStep ==
    /\ ops = <<>>
    /\ pd' = price_data(ItemVariation(1, <<FALSE, Some(amounts.price),
                                           Some(amounts.unit)>>, "ITEM_A"),
                        amounts.tax_rate)
    /\ ops' = <<"price_data">>
    /\ UNCHANGED amounts

\* price.set_por(dec!(0.4))
SetPorStep ==
    /\ ops = <<"price_data">>
    /\ pd' = set_por(pd, TargetPor)
    /\ ops' = Append(ops, "set_por")
    /\ UNCHANGED amounts

\* price.round_to_retail(), at most twice
RoundToRetailStep ==
    /\ ops # <<>>
    /\ Count(ops, "round_to_retail") < 2
    /\ pd' = round_to_retail(pd)
    /\ ops' = Append(ops, "round_to_retail")
    /\ UNCHANGED amounts

PriceNext ==
    \/ PriceDataStep /\ UNCHANGED pipelineVars
    \/ SetPorStep /\ UNCHANGED pipelineVars
    \/ RoundToRetailStep /\ UNCHANGED pipelineVars

PriceSpec == PriceInit /\ [][PriceNext]_vars

-----------------------------------------------------------------------------
(* Properties of ApplyPriceTargets, checked under Spec *)

\* the variation an update is for: ids are catalog positions and the fetch
\* has appended the whole catalog when updates exist
UpdatedIds == { updates[k].id : k \in 1..Len(updates) }

Variant(id) == CHOOSE v \in { result[k] : k \in 1..Len(result) } : v.id = id

KnownTaxIds == {TAX_ZERO, TAX_REDUCED, TAX_STANDARD}

\* the rate resolved for a variation: its item has a category with a match arm
Resolved(v) ==
    /\ v.item_id \in DOMAIN item_tax_map
    /\ item_tax_map[v.item_id] \in KnownTaxIds

ResolvedPrice(v) == price_data(v, tax_rate_of(item_tax_map[v.item_id]))

\* the objects of a sequence of pages, in order
RECURSIVE concat(_)
concat(ps) == IF ps = <<>> THEN <<>> ELSE Head(ps) \o concat(Tail(ps))

\* C1: every update that is emitted carries a price whose margin-on-retail,
\* recomputed by por() from the written-back price, the same unit cost and
\* the same tax rate, is at least 0.40.  Stated for the variants whose price
\* exceeds their unit cost, so that it does not rest on how the others are
\* treated (C4).
C1_WrittenPriceMeetsTarget ==
    \A k \in 1..Len(updates) :
        LET v == Variant(updates[k].id)
            written == [ResolvedPrice(v) EXCEPT !.rrp = updates[k].amount]
        IN  v.price_money.amount > v.default_unit_cost.amount =>
                por(written) >= TargetPor

\* C2: once a list request has been answered with an error status no further
\* list request is issued, and the fetch returns exactly the pages before
\* the failed one, in cursor order.
C2_FetchStopsAtFailedPage ==
    \A k \in 1..Len(requests) :
        (requests[k].endpoint = "list" /\ requests[k].status = "error") =>
            /\ \A j \in (k + 1)..Len(requests) : requests[j].endpoint # "list"
            /\ pc # "fetch" => result = concat(SubSeq(pages, 1, requests[k].arg))

\* C3: when a chunk call of the tax-rate resolution has failed the resolution
\* step fails: the run does not complete and no update is computed from the
\* results of the other chunks.
C3_ChunkFailureFailsResolution ==
    (\E i \in DOMAIN tasks : tasks[i].state = "err") =>
        (pc # "done" /\ updates = <<>>)

\* C4: no update is emitted for a variant whose unit cost is zero or negative,
\* whose price is zero or negative, or whose unit cost is greater than or
\* equal to its price.
C4_NonViableVariantsExcluded ==
    \A id \in UpdatedIds :
        LET v == Variant(id)
        IN  /\ v.default_unit_cost.amount > 0
            /\ v.price_money.amount > 0
            /\ v.default_unit_cost.amount < v.price_money.amount

\* C5: a run that has computed a non-empty set of updates has issued, when it
\* completes, a batch-upsert request to the remote API.
C5_UpdatesAreUpserted ==
    (pc = "done" /\ updates # <<>>) =>
        \E k \in 1..Len(requests) : requests[k].endpoint = "batch-upsert"

\* C7: a variant whose margin-on-retail, computed by por() from its price,
\* unit cost and resolved tax rate, is at least 0.40 gets no update, and every
\* variant that gets one had a margin strictly below 0.40.
C7_AtTargetNeverModified ==
    /\ \A k \in 1..Len(result) :
          LET v == result[k]
          IN  (/\ pc = "done"
               /\ Resolved(v)
               /\ v.price_money.some /\ v.default_unit_cost.some
               /\ net(ResolvedPrice(v)) # 0
               /\ por(ResolvedPrice(v)) >= TargetPor)
              => v.id \notin UpdatedIds
    /\ \A id \in UpdatedIds :
          /\ Resolved(Variant(id))
          /\ por(ResolvedPrice(Variant(id))) < TargetPor

\* a completed run left a variant with margin exactly 0.40 alone and
\* retargeted another one
C7_Witness ==
    /\ pc = "done"
    /\ updates # <<>>
    /\ \E k \in 1..Len(variations) :
          /\ Resolved(variations[k])
          /\ por(ResolvedPrice(variations[k])) = TargetPor
          /\ variations[k].id \notin UpdatedIds

C10_MergeNeverFails == panic # "unwrap"

-----------------------------------------------------------------------------
(* Properties of the PriceData functions, checked under PriceSpec *)

\* C6, as stated: a unit cost of 86 pennies at tax rate 0.20 leads through
\* Net' = 143.33 and Gross' = 171.99 to a retail price of 171.99, written back
\* as 17199 pennies.
C6_Original ==
    (amounts.unit = 86 /\ amounts.tax_rate = 20) =>
        /\ ops = <<"price_data", "set_por">> =>
              (set_por_net(pd, TargetPor) = 14333 /\ pd.rrp = 17199)
        /\ ops = <<"price_data", "set_por", "round_to_retail">> =>
              (pd.rrp = 17199 /\ update_amount(pd) = 17199)

\* C6, amended: the figures 143.33, 171.99 and 17199 pennies are those of a
\* unit cost of 8600 pennies (86.00); a unit cost of 86 pennies (0.86) leads
\* through Net' = 1.43 and Gross' = 1.71 to 1.70, written back as 170 pennies.
C6_SetPorExample ==
    /\ (amounts.unit = 8600 /\ amounts.tax_rate = 20) =>
        /\ ops = <<"price_data", "set_por">> =>
              (set_por_net(pd, TargetPor) = 14333 /\ pd.rrp = 17199)
        /\ ops = <<"price_data", "set_por", "round_to_retail">> =>
              (pd.rrp = 17199 /\ update_amount(pd) = 17199)
    /\ (amounts.unit = 86 /\ amounts.tax_rate = 20) =>
        /\ ops = <<"price_data", "set_por">> =>
              (set_por_net(pd, TargetPor) = 143 /\ pd.rrp = 171)
        /\ ops = <<"price_data", "set_por", "round_to_retail">> =>
              (pd.rrp = 170 /\ update_amount(pd) = 170)

\* set_por and round_to_retail have been applied to a unit cost of 8600
\* pennies at tax rate 0.20
C6_Witness ==
    /\ amounts.unit = 8600
    /\ amounts.tax_rate = 20
    /\ ops = <<"price_data", "set_por", "round_to_retail">>
    /\ pd.rrp = 17199

\* the last penny digit the rule asks for: <= 2 -> 0, <= 5 -> 5, else -> 9
RetailEnding(d) == IF d <= 2 THEN 0 ELSE IF d <= 5 THEN 5 ELSE 9

\* C8: round_to_retail is idempotent, and its result keeps the sign and the
\* leading digits of the price and ends in the digit the rule chooses.
C8_RoundToRetailIdempotent ==
    (ops # <<>> /\ ops[Len(ops)] = "round_to_retail") =>
        /\ round_to_retail(pd) = pd
        /\ Abs(pd.rrp) % 10 \in {0, 5, 9}
        /\ ops = <<"price_data", "round_to_retail", "round_to_retail">> =>
              pd = round_to_retail(price_data(
                       ItemVariation(1, <<FALSE, Some(amounts.price),
                                          Some(amounts.unit)>>, "ITEM_A"),
                       amounts.tax_rate))
        /\ ops[2] = "round_to_retail" =>
              /\ Abs(pd.rrp) = Abs(amounts.price) - (Abs(amounts.price) % 10)
                                 + RetailEnding(Abs(amounts.price) % 10)
              /\ amounts.price < 0 => pd.rrp <= 0
              /\ amounts.price >= 0 => pd.rrp >= 0

\* round_to_retail has been applied twice to a negative price ending in 7
C8_Witness ==
    /\ ops = <<"price_data", "round_to_retail", "round_to_retail">>
    /\ amounts.price = -17
    /\ pd.rrp = -19

====
